---------------------------- MODULE Spec2Model ----------------------------
(***************************************************************************)
(* A model of litesata/common.py: the primitives table and its lookups,    *)
(* the FIS layouts, the endpoint descriptions, the sector/dword            *)
(* conversions, and the generic modules Counter, Timeout and               *)
(* BufferizeEndpoints.  Each part has its own specification; the variables *)
(* of the other parts rest at their idle values.                           *)
(***************************************************************************)
EXTENDS Integers, Sequences, FiniteSets, TLC

VARIABLES
    \* is_primitive / decode_primitive
    dword, is_primitive_ret, decode_primitive_ret,
    \* FIS layouts
    fis_name, fis_a, fis_b,
    \* endpoint descriptions
    desc_fn, desc_dw, desc_layout, field_name, field_width,
    \* dwords2sectors / sectors2dwords
    conv_n, conv_op, conv_ret,
    \* Counter
    counter_width, counter_value, counter_reset, counter_ce, counter_last,
    \* Timeout
    timeout_length, timeout_value, timeout_reset, timeout_ce,
    timeout_ticks, timeout_held, timeout_fired,
    \* BufferizeEndpoints
    bz_args, bz_name, bz_packetized,
    d_stb, d_unit, q_ack, valid_n, q_unit, in_packet,
    sent, received, bz_last

primVars    == <<dword, is_primitive_ret, decode_primitive_ret>>
fisVars     == <<fis_name, fis_a, fis_b>>
descVars    == <<desc_fn, desc_dw, desc_layout, field_name, field_width>>
convVars    == <<conv_n, conv_op, conv_ret>>
counterVars == <<counter_width, counter_value, counter_reset, counter_ce,
                 counter_last>>
timeoutVars == <<timeout_length, timeout_value, timeout_reset, timeout_ce,
                 timeout_ticks, timeout_held, timeout_fired>>
bufVars     == <<bz_args, bz_name, bz_packetized, d_stb, d_unit, q_ack,
                 valid_n, q_unit, in_packet, sent, received, bz_last>>
vars        == <<primVars, fisVars, descVars, convVars, counterVars,
                 timeoutVars, bufVars>>

None == "none"

\* A variable that holds no value yet, and one that holds x.
Unset == << >>
Some(x) == <<x>>

RECURSIVE Pow2(_)
Pow2(k) == IF k <= 0 THEN 1 ELSE 2 * Pow2(k - 1)

(***************************************************************************)
(* PHY / link layers: the primitives table.                                *)
(* A 32-bit word is written as the pair <<high half, low half>> of 16-bit  *)
(* numbers: 0x7B4A4ABC is <<31562, 19132>>.                                *)
(***************************************************************************)
Half == Pow2(16)

\* The dict display of lines 22-37, entry by entry, in source order.
primitives_src ==
    << <<"ALIGN", <<31562, 19132>> >>,    \* 0x7B4A4ABC
       <<"CONT",  <<39321, 43644>> >>,    \* 0X9999AA7C
       <<"SYNC",  <<46517, 38268>> >>,    \* 0xB5B5957C
       <<"R_RDY", <<19018, 38268>> >>,    \* 0x4A4A957C
       <<"R_OK",  <<13621, 46460>> >>,    \* 0x3535B57C
       <<"R_ERR", <<22102, 46460>> >>,    \* 0x5656B57C
       <<"R_IP",  <<21845, 46460>> >>,    \* 0X5555B57C
       <<"X_RDY", <<22359, 46460>> >>,    \* 0x5757B57C
       <<"CONT",  <<39321, 43644>> >>,    \* 0x9999AA7C
       <<"WTRM",  <<22616, 46460>> >>,    \* 0x5858B57C
       <<"SOF",   <<14135, 46460>> >>,    \* 0x3737B57C
       <<"EOF",   <<54741, 46460>> >>,    \* 0xD5D5B57C
       <<"HOLD",  <<54741, 43644>> >>,    \* 0xD5D5AA7C
       <<"HOLDA", <<38293, 43644>> >> >>  \* 0X9595AA7C

\* A dict display evaluates its entries left to right: a key seen again
\* keeps its first position and takes the later value.
RECURSIVE DictDisplay(_, _)
DictDisplay(entries, k) ==
    IF k = 0 THEN << >>
    ELSE LET d   == DictDisplay(entries, k - 1)
             e   == entries[k]
             pos == {i \in 1..Len(d) : d[i][1] = e[1]}
         IN  IF pos = {} THEN Append(d, e)
             ELSE [i \in 1..Len(d) |-> IF i \in pos THEN e ELSE d[i]]

primitives == DictDisplay(primitives_src, Len(primitives_src))

\* for k, v in primitives.items(): if dword == v: return True / return False
RECURSIVE is_primitive_from(_, _)
is_primitive_from(w, i) ==
    IF i > Len(primitives) THEN FALSE
    ELSE IF w = primitives[i][2] THEN TRUE
    ELSE is_primitive_from(w, i + 1)

\* A lookup that compares the low 16 bits only.
is_primitive_low(w) == \E i \in 1..Len(primitives) : w[2] = primitives[i][2][2]

is_primitive(w) == is_primitive_from(w, 1)

\* for k, v in primitives.items(): if dword == v: return k / return ""
RECURSIVE decode_primitive_from(_, _)
decode_primitive_from(w, i) ==
    IF i > Len(primitives) THEN ""
    ELSE IF w = primitives[i][2] THEN primitives[i][1]
    ELSE decode_primitive_from(w, i + 1)

decode_primitive(w) == decode_primitive_from(w, 1)

\* The words looked up: every word within WordDelta of a table value in
\* either half, and the two ends of the 32-bit range.
WordDelta == 1

Words ==
    { << (primitives_src[i][2][1] + dh) % Half,
         (primitives_src[i][2][2] + dl) % Half >> :
        i \in 1..Len(primitives_src),
        dh \in -WordDelta..WordDelta, dl \in -WordDelta..WordDelta }
    \cup { <<0, 0>>, <<Half - 1, Half - 1>> }

PrimIdle ==
    /\ dword = <<0, 0>>
    /\ is_primitive_ret = Unset
    /\ decode_primitive_ret = Unset

PrimInit ==
    /\ dword \in Words
    /\ is_primitive_ret = Unset
    /\ decode_primitive_ret = Unset

IsPrimitive ==
    /\ is_primitive_ret = Unset
    /\ is_primitive_ret' = Some(is_primitive(dword))
    /\ UNCHANGED <<dword, decode_primitive_ret>>

DecodePrimitive ==
    /\ decode_primitive_ret = Unset
    /\ decode_primitive_ret' = Some(decode_primitive(dword))
    /\ UNCHANGED <<dword, is_primitive_ret>>

PrimNext ==
    \/ IsPrimitive /\ UNCHANGED <<fisVars, descVars, convVars, counterVars,
                                  timeoutVars, bufVars>>
    \/ DecodePrimitive /\ UNCHANGED <<fisVars, descVars, convVars,
                                      counterVars, timeoutVars, bufVars>>

\* The values of the table as written in the source, and the names
\* written with a value.
TableValues == {primitives_src[i][2] : i \in 1..Len(primitives_src)}
NamesOf(w)  == {primitives_src[i][1] :
                   i \in {j \in 1..Len(primitives_src) : primitives_src[j][2] = w}}


(***************************************************************************)
(* Transport layer: the FIS layouts.  A layout is the dict display of the  *)
(* source, entry by entry: <<name, FISField(dword, offset, width)>>.       *)
(***************************************************************************)
FISField(dw, offset, width) == [dword |-> dw, offset |-> offset, width |-> width]

fis_reg_h2d_cmd_len == 5

\* "c" written at bit 11, inside pm_port.
fis_reg_h2d_layout_c11 ==
    << <<"type",         FISField(0,  0, 8)>>,
       <<"pm_port",      FISField(0,  8, 4)>>,
       <<"c",            FISField(0, 11, 1)>>,
       <<"command",      FISField(0, 16, 8)>>,
       <<"features_lsb", FISField(0, 24, 8)>>,
       <<"lba_lsb",      FISField(1, 0, 24)>>,
       <<"device",       FISField(1, 24, 8)>>,
       <<"lba_msb",      FISField(2, 0, 24)>>,
       <<"features_msb", FISField(2, 24, 8)>>,
       <<"count",        FISField(3, 0, 16)>>,
       <<"icc",          FISField(3, 16, 8)>>,
       <<"control",      FISField(3, 24, 8)>> >>

fis_reg_h2d_layout ==
    << <<"type",         FISField(0,  0, 8)>>,
       <<"pm_port",      FISField(0,  8, 4)>>,
       <<"c",            FISField(0, 15, 1)>>,
       <<"command",      FISField(0, 16, 8)>>,
       <<"features_lsb", FISField(0, 24, 8)>>,
       <<"lba_lsb",      FISField(1, 0, 24)>>,
       <<"device",       FISField(1, 24, 8)>>,
       <<"lba_msb",      FISField(2, 0, 24)>>,
       <<"features_msb", FISField(2, 24, 8)>>,
       <<"count",        FISField(3, 0, 16)>>,
       <<"icc",          FISField(3, 16, 8)>>,
       <<"control",      FISField(3, 24, 8)>> >>

fis_reg_d2h_cmd_len == 5

fis_reg_d2h_layout ==
    << <<"type",    FISField(0,  0, 8)>>,
       <<"pm_port", FISField(0,  8, 4)>>,
       <<"i",       FISField(0, 14, 1)>>,
       <<"status",  FISField(0, 16, 8)>>,
       <<"error",   FISField(0, 24, 8)>>,
       <<"lba_lsb", FISField(1, 0, 24)>>,
       <<"device",  FISField(1, 24, 8)>>,
       <<"lba_msb", FISField(2, 0, 24)>>,
       <<"count",   FISField(3, 0, 16)>> >>

fis_dma_activate_d2h_cmd_len == 1

fis_dma_activate_d2h_layout ==
    << <<"type",    FISField(0,  0, 8)>>,
       <<"pm_port", FISField(0,  8, 4)>> >>

fis_pio_setup_d2h_cmd_len == 5

fis_pio_setup_d2h_layout ==
    << <<"type",           FISField(0,  0, 8)>>,
       <<"pm_port",        FISField(0,  8, 4)>>,
       <<"d",              FISField(0, 13, 1)>>,
       <<"i",              FISField(0, 14, 1)>>,
       <<"status",         FISField(0, 16, 8)>>,
       <<"error",          FISField(0, 24, 8)>>,
       <<"lba_lsb",        FISField(1, 0, 24)>>,
       <<"lba_msb",        FISField(2, 0, 24)>>,
       <<"count",          FISField(3, 0, 16)>>,
       <<"transfer_count", FISField(4, 0, 16)>> >>

fis_data_cmd_len == 1

fis_data_layout ==
    << <<"type", FISField(0,  0, 8)>> >>

FISNames == {"reg_h2d", "reg_d2h", "dma_activate_d2h", "pio_setup_d2h", "data"}

\* fis_<name>_layout, as the dict the display builds.
fis_layout(name) ==
    LET src == CASE name = "reg_h2d"          -> fis_reg_h2d_layout
                 [] name = "reg_d2h"          -> fis_reg_d2h_layout
                 [] name = "dma_activate_d2h" -> fis_dma_activate_d2h_layout
                 [] name = "pio_setup_d2h"    -> fis_pio_setup_d2h_layout
                 [] name = "data"             -> fis_data_layout
    IN  DictDisplay(src, Len(src))

\* fis_<name>_cmd_len
fis_cmd_len(name) ==
    CASE name = "reg_h2d"          -> fis_reg_h2d_cmd_len
      [] name = "reg_d2h"          -> fis_reg_d2h_cmd_len
      [] name = "dma_activate_d2h" -> fis_dma_activate_d2h_cmd_len
      [] name = "pio_setup_d2h"    -> fis_pio_setup_d2h_cmd_len
      [] name = "data"             -> fis_data_cmd_len

\* layout[key]: the FISField stored under a key.
fis_getitem(layout, key) ==
    LET i == CHOOSE j \in 1..Len(layout) : layout[j][1] = key
    IN  layout[i][2]

fis_keys(layout) == {layout[i][1] : i \in 1..Len(layout)}

FisIdle == fis_name = None /\ fis_a = Unset /\ fis_b = Unset

FisInit == fis_name \in FISNames /\ fis_a = Unset /\ fis_b = Unset

\* Two fields of the chosen layout are read (the same field twice included).
FisReadFields ==
    /\ fis_a = Unset
    /\ \E a \in fis_keys(fis_layout(fis_name)),
          b \in fis_keys(fis_layout(fis_name)) :
           /\ fis_a' = Some([name |-> a, field |-> fis_getitem(fis_layout(fis_name), a)])
           /\ fis_b' = Some([name |-> b, field |-> fis_getitem(fis_layout(fis_name), b)])
    /\ UNCHANGED fis_name

FisNext ==
    FisReadFields /\ UNCHANGED <<primVars, descVars, convVars, counterVars,
                                 timeoutVars, bufVars>>

\* The bits of the FIS a field occupies: <<dword, bit>>.
FieldBits(f) == {<<f.dword, b>> : b \in f.offset..(f.offset + f.width - 1)}

(***************************************************************************)
(* Endpoint descriptions.  EndpointDescription(layout, packetized) keeps   *)
(* the layout as the list of (name, width) it was given.                   *)
(***************************************************************************)
EndpointDescription(layout, packetized) ==
    [layout |-> layout, packetized |-> packetized]

phy_description(dw) ==
    EndpointDescription(<< <<"data", dw>>, <<"charisk", dw \div 8>> >>, FALSE)

link_description(dw) ==
    EndpointDescription(<< <<"d", dw>>, <<"error", 1>> >>, TRUE)

transport_tx_description(dw) ==
    EndpointDescription(
        << <<"type", 8>>, <<"pm_port", 4>>, <<"c", 1>>, <<"command", 8>>,
           <<"features", 16>>, <<"lba", 48>>, <<"device", 8>>, <<"count", 16>>,
           <<"icc", 8>>, <<"control", 8>>, <<"data", dw>> >>, TRUE)

transport_rx_description(dw) ==
    EndpointDescription(
        << <<"type", 8>>, <<"pm_port", 4>>, <<"r", 1>>, <<"d", 1>>, <<"i", 1>>,
           <<"status", 8>>, <<"error", 8>>, <<"lba", 48>>, <<"device", 8>>,
           <<"count", 16>>, <<"transfer_count", 16>>, <<"data", dw>>,
           <<"error", 1>> >>, TRUE)

command_tx_description(dw) ==
    EndpointDescription(
        << <<"write", 1>>, <<"read", 1>>, <<"identify", 1>>, <<"sector", 48>>,
           <<"count", 16>>, <<"data", dw>> >>, TRUE)

command_rx_description(dw) ==
    EndpointDescription(
        << <<"write", 1>>, <<"read", 1>>, <<"identify", 1>>, <<"last", 1>>,
           <<"success", 1>>, <<"failed", 1>>, <<"data", dw>> >>, TRUE)

command_rx_cmd_description(dw) ==
    EndpointDescription(
        << <<"write", 1>>, <<"read", 1>>, <<"identify", 1>>, <<"last", 1>>,
           <<"success", 1>>, <<"failed", 1>> >>, FALSE)

command_rx_data_description(dw) ==
    EndpointDescription(<< <<"data", dw>> >>, TRUE)

DescriptionFns ==
    {"phy", "link", "transport_tx", "transport_rx", "command_tx", "command_rx",
     "command_rx_cmd", "command_rx_data"}

description(fn, dw) ==
    CASE fn = "phy"             -> phy_description(dw)
      [] fn = "link"            -> link_description(dw)
      [] fn = "transport_tx"    -> transport_tx_description(dw)
      [] fn = "transport_rx"    -> transport_rx_description(dw)
      [] fn = "command_tx"      -> command_tx_description(dw)
      [] fn = "command_rx"      -> command_rx_description(dw)
      [] fn = "command_rx_cmd"  -> command_rx_cmd_description(dw)
      [] fn = "command_rx_data" -> command_rx_data_description(dw)

\* The data widths the descriptions are built for: 8, 16, ... bits.
MaxDwBytes == 4
DataWidths == {8 * k : k \in 1..MaxDwBytes}

DescIdle ==
    /\ desc_fn = None /\ desc_dw = 0 /\ desc_layout = << >>
    /\ field_name = None /\ field_width = 0

DescInit == DescIdle

\* A description function is called with a data width.
Describe ==
    /\ desc_fn = None
    /\ \E fn \in DescriptionFns, dw \in DataWidths :
           /\ desc_fn' = fn
           /\ desc_dw' = dw
           /\ desc_layout' = description(fn, dw).layout
    /\ UNCHANGED <<field_name, field_width>>

\* The width of a field is read back by position.
ReadField ==
    /\ desc_fn # None
    /\ field_name = None
    /\ \E i \in 1..Len(desc_layout) :
           /\ field_name' = desc_layout[i][1]
           /\ field_width' = desc_layout[i][2]
    /\ UNCHANGED <<desc_fn, desc_dw, desc_layout>>

DescNext ==
    \/ Describe /\ UNCHANGED <<primVars, fisVars, convVars, counterVars,
                               timeoutVars, bufVars>>
    \/ ReadField /\ UNCHANGED <<primVars, fisVars, convVars, counterVars,
                                timeoutVars, bufVars>>

(***************************************************************************)
(* HDD: sector / dword conversions.                                        *)
(* Python integers are unbounded.  An integer is written                   *)
(* [hi, exp, lo] for hi * 2^exp + lo, with hi in {0, 1}, lo < 2^exp when   *)
(* hi = 1, and exp = 0 when hi = 0, so that the integers around 2^53 can   *)
(* be written.  A float is written [hi, exp, lo, den] for                  *)
(* (hi * 2^exp + lo) / den, den a power of two.                            *)
(***************************************************************************)
logical_sector_size == 512

\* The significand of a C double, which a Python float is: 53 bits.
DBL_MANT_DIG == 53

PyInt(hi, exp, lo) == [hi |-> hi, exp |-> IF hi = 0 THEN 0 ELSE exp, lo |-> lo]

RECURSIVE Log2(_)
Log2(k) == IF k <= 1 THEN 0 ELSE 1 + Log2(k \div 2)

\* n * k, for k a power of two
int_mul(n, k) == PyInt(n.hi, n.exp + Log2(k), n.lo * k)

\* n // k, for k a power of two that divides 2^exp
int_floordiv(n, k) == PyInt(n.hi, n.exp - Log2(k), n.lo \div k)

\* x rounded to a multiple of u, a tie going to the even multiple
RoundHalfEven(x, u) ==
    LET q == x \div u
        r == x % u
    IN  IF 2 * r < u THEN q * u
        ELSE IF 2 * r > u THEN (q + 1) * u
        ELSE IF q % 2 = 0 THEN q * u ELSE (q + 1) * u

\* a / k (true division), for k a power of two: the double nearest the
\* quotient.  The numerator keeps DBL_MANT_DIG significant bits: below
\* 2^DBL_MANT_DIG it is exact, from there on it is rounded to a multiple of
\* 2^(exp + 1 - DBL_MANT_DIG), ties to even (2^exp is an even multiple).
int_truediv(a, k) ==
    LET ulp == Pow2(a.exp + 1 - DBL_MANT_DIG)
        lo  == IF a.hi = 0 THEN a.lo ELSE RoundHalfEven(a.lo, ulp)
    IN  [hi |-> a.hi, exp |-> a.exp, lo |-> lo, den |-> k]

\* math.ceil(x)
math_ceil(x) ==
    PyInt(x.hi, x.exp - Log2(x.den), (x.lo + x.den - 1) \div x.den)

\* return math.ceil(n*4/logical_sector_size)
dwords2sectors(n) == math_ceil(int_truediv(int_mul(n, 4), logical_sector_size))

\* return n*logical_sector_size//4
sectors2dwords(n) == int_floordiv(int_mul(n, logical_sector_size), 4)

\* The integers converted: 0..MaxSmall, and 2^e + l for e in
\* MinBigExp..MaxBigExp and l in 0..MaxLow.
MaxSmall  == 300
MinBigExp == 50
MaxBigExp == 55
MaxLow    == 4

ConvInputs ==
    {PyInt(0, 0, l) : l \in 0..MaxSmall}
    \cup {PyInt(1, e, l) : e \in MinBigExp..MaxBigExp, l \in 0..MaxLow}

ConvIdle == conv_n = PyInt(0, 0, 0) /\ conv_op = None /\ conv_ret = Unset

ConvInit == conv_n \in ConvInputs /\ conv_op = None /\ conv_ret = Unset

Dwords2Sectors ==
    /\ conv_op = None
    /\ conv_op' = "dwords2sectors"
    /\ conv_ret' = Some(dwords2sectors(conv_n))
    /\ UNCHANGED conv_n

Sectors2Dwords ==
    /\ conv_op = None
    /\ conv_op' = "sectors2dwords"
    /\ conv_ret' = Some(sectors2dwords(conv_n))
    /\ UNCHANGED conv_n

\* dwords2sectors(sectors2dwords(n))
RoundTrip ==
    /\ conv_op = None
    /\ conv_op' = "roundtrip"
    /\ conv_ret' = Some(dwords2sectors(sectors2dwords(conv_n)))
    /\ UNCHANGED conv_n

ConvNext ==
    \/ Dwords2Sectors /\ UNCHANGED <<primVars, fisVars, descVars, counterVars,
                                     timeoutVars, bufVars>>
    \/ Sectors2Dwords /\ UNCHANGED <<primVars, fisVars, descVars, counterVars,
                                     timeoutVars, bufVars>>
    \/ RoundTrip /\ UNCHANGED <<primVars, fisVars, descVars, counterVars,
                                timeoutVars, bufVars>>

(***************************************************************************)
(* Generic modules: Counter and Timeout.  One step of a specification is   *)
(* one clock edge: the registers take their next values from the inputs    *)
(* of the cycle that ends, and the inputs of the next cycle are chosen.    *)
(***************************************************************************)
\* InsertCE: the synchronous statements act only while ce is asserted.
InsertCE(ce, cur, nxt) == IF ce THEN nxt ELSE cur

\* InsertReset: while reset is asserted the registers take their reset
\* value, 0, whatever the statements it wraps assign.
InsertReset(reset, nxt) == IF reset THEN 0 ELSE nxt

\* self.sync += self.value.eq(self.value-1)
CounterSyncDown(v, w) == (v - 1) % Pow2(w)

\* self.sync += self.value.eq(self.value+1), on flen(self.value) bits
CounterSync(v, w) == (v + 1) % Pow2(w)

\* The decorators applied in the other order: InsertCE outermost.
CounterStepCEOuter(v, w, reset, ce) ==
    InsertCE(ce, v, InsertReset(reset, CounterSync(v, w)))

\* @DecorateModule(InsertReset) @DecorateModule(InsertCE) class Counter
CounterStep(v, w, reset, ce) ==
    InsertReset(reset, InsertCE(ce, v, CounterSync(v, w)))

\* The widths a Counter is built with: 1..MaxWidth bits.
MaxWidth == 4

CounterIdle ==
    /\ counter_width = 0 /\ counter_value = 0
    /\ counter_reset = FALSE /\ counter_ce = FALSE /\ counter_last = Unset

CounterInit ==
    /\ counter_width \in 1..MaxWidth
    /\ counter_value = 0
    /\ counter_reset \in BOOLEAN
    /\ counter_ce \in BOOLEAN
    /\ counter_last = Unset

CounterTick ==
    /\ counter_width > 0
    /\ counter_value' = CounterStep(counter_value, counter_width,
                                    counter_reset, counter_ce)
    /\ counter_last' = Some([value |-> counter_value, reset |-> counter_reset,
                             ce |-> counter_ce])
    /\ counter_reset' \in BOOLEAN
    /\ counter_ce' \in BOOLEAN
    /\ UNCHANGED counter_width

CounterNext ==
    CounterTick /\ UNCHANGED <<primVars, fisVars, descVars, convVars,
                               timeoutVars, bufVars>>

\* bits_for(n): the bits an unsigned n needs, at least 1
RECURSIVE bits_for(_)
bits_for(n) == IF n <= 1 THEN 1 ELSE 1 + bits_for(n \div 2)

\* value = Signal(max=length): the bits of 0..length-1
timeout_width(length) == bits_for(length - 1)

\* A counter that stops at length.
TimeoutSyncCapped(v, length) == IF v = length THEN v ELSE v + 1

\* self.sync += value.eq(value+1)
TimeoutSync(v, length) == (v + 1) % Pow2(timeout_width(length))

\* @DecorateModule(InsertReset) @DecorateModule(InsertCE) class Timeout
TimeoutStep(v, length, reset, ce) ==
    InsertReset(reset, InsertCE(ce, v, TimeoutSync(v, length)))

\* self.comb += self.reached.eq(value == length)
reached == timeout_value = timeout_length

\* The lengths a Timeout is built with, 2..MaxLength, and the clock steps
\* followed after a reset.
MaxLength == 6
MaxTicks  == 16

TimeoutIdle ==
    /\ timeout_length = 0 /\ timeout_value = 0
    /\ timeout_reset = FALSE /\ timeout_ce = FALSE
    /\ timeout_ticks = 0 /\ timeout_held = FALSE /\ timeout_fired = FALSE

TimeoutInit ==
    /\ timeout_length \in 2..MaxLength
    /\ timeout_value = 0
    /\ timeout_reset \in BOOLEAN
    /\ timeout_ce \in BOOLEAN
    /\ timeout_ticks = 0
    /\ timeout_held = TRUE
    /\ timeout_fired = FALSE

\* timeout_ticks: the clock steps since the last reset (or power-up);
\* timeout_held: ce was asserted at each of them; timeout_fired: since
\* then reached was asserted and the counter moved on.
TimeoutTick ==
    /\ timeout_length > 0
    /\ timeout_reset \/ timeout_ticks < MaxTicks
    /\ timeout_value' = TimeoutStep(timeout_value, timeout_length,
                                    timeout_reset, timeout_ce)
    /\ timeout_ticks' = IF timeout_reset THEN 0 ELSE timeout_ticks + 1
    /\ timeout_held' = IF timeout_reset THEN TRUE
                       ELSE timeout_held /\ timeout_ce
    /\ timeout_fired' = IF timeout_reset THEN FALSE
                        ELSE timeout_fired \/ (reached /\ timeout_ce)
    /\ timeout_reset' \in BOOLEAN
    /\ timeout_ce' \in BOOLEAN
    /\ UNCHANGED timeout_length

TimeoutNext ==
    TimeoutTick /\ UNCHANGED <<primVars, fisVars, descVars, convVars,
                               counterVars, bufVars>>

(***************************************************************************)
(* BufferizeEndpoints.  The submodule has one Sink, "sink", and one        *)
(* Source, "source"; one of them is followed: a producer drives it, a      *)
(* consumer accepts from it.  A unit is [data, sop, eop]; the signals of   *)
(* one side of an endpoint are [stb, unit].                                *)
(***************************************************************************)
\* get_endpoints(submodule): name -> class
endpoints == [sink |-> "Sink", source |-> "Source"]

\* if name in args
selected_named(name, args) == name \in args

\* if name in args or len(args) == 0
selected(name, args) == name \in args \/ Cardinality(args) = 0

\* sinks.update({name : endpoint}) for the selected Sinks
sinks(args) ==
    {name \in DOMAIN endpoints : selected(name, args) /\ endpoints[name] = "Sink"}

\* sources.update({name : endpoint}) for the selected Sources
sources(args) ==
    {name \in DOMAIN endpoints : selected(name, args) /\ endpoints[name] = "Source"}

\* A connection that carries stb and the payload, and not sop and eop.
Record_connect_payload(master) ==
    [stb |-> master.stb,
     unit |-> [data |-> master.unit.data, sop |-> FALSE, eop |-> FALSE]]

\* Record.connect(master, slave): the slave takes the master's signals
Record_connect(master) == [stb |-> master.stb, unit |-> master.unit]

\* Record.connect(master, slave): the master takes the slave's ack
Record_connect_ack(slave_ack) == slave_ack

\* Buffer: pipe_ce = source.ack | ~valid
pipe_ce(ack) == ack \/ ~valid_n

\* Buffer: q.stb = valid, q.payload, q.sop, q.eop are the registers
buf_q == [stb |-> valid_n, unit |-> q_unit]

\* The producer's side.
producer == [stb |-> d_stb, unit |-> d_unit]

\* self.comb += Record.connect(source, buf.d), for a buffered source;
\* setattr(self, name, buf.d), for a buffered sink
buf_d == IF bz_name \in sources(bz_args) THEN Record_connect(producer) ELSE producer

\* self.comb += Record.connect(buf.q, sink), for a buffered sink;
\* setattr(self, name, buf.q), for a buffered source;
\* __getattr__, the submodule's own endpoint, for one that is not buffered
consumer_sees ==
    IF bz_name \in sinks(bz_args) THEN Record_connect(buf_q)
    ELSE IF bz_name \in sources(bz_args) THEN buf_q
    ELSE producer

\* buf.q.ack
buf_q_ack ==
    IF bz_name \in sinks(bz_args) THEN Record_connect_ack(q_ack) ELSE q_ack

\* The ack the producer sees.
producer_ack ==
    IF bz_name \in sources(bz_args) THEN Record_connect_ack(pipe_ce(buf_q_ack))
    ELSE IF bz_name \in sinks(bz_args) THEN pipe_ce(buf_q_ack)
    ELSE q_ack

\* The payloads sent (one bit), the units of one run, and the unit a
\* producer that is not valid shows.
Payloads == {0, 1}
MaxUnits == 4

\* The reset value of the payload registers.
NoUnit == [data |-> 0, sop |-> FALSE, eop |-> FALSE]

IdleUnit == [data |-> 1, sop |-> bz_packetized, eop |-> bz_packetized]

BufIdle ==
    /\ bz_args = {} /\ bz_name = None /\ bz_packetized = FALSE
    /\ d_stb = FALSE /\ d_unit = NoUnit /\ q_ack = FALSE
    /\ valid_n = FALSE /\ q_unit = NoUnit /\ in_packet = FALSE
    /\ sent = << >> /\ received = << >> /\ bz_last = Unset

BufInit ==
    /\ bz_args \in SUBSET (DOMAIN endpoints)
    /\ bz_name \in DOMAIN endpoints
    /\ bz_packetized \in BOOLEAN
    /\ d_stb = FALSE
    /\ d_unit = IdleUnit
    /\ q_ack \in BOOLEAN
    /\ valid_n = FALSE
    /\ q_unit = NoUnit
    /\ in_packet = FALSE
    /\ sent = << >>
    /\ received = << >>
    /\ bz_last = Unset

\* One clock edge.  up, down: a unit is accepted from the producer, by the
\* consumer.  The Buffer's registers load while pipe_ce is asserted; the
\* producer keeps a unit it shows until it is accepted, and frames its
\* packets when the description is packetized.
BufTick ==
    LET up       == d_stb /\ producer_ack
        down     == consumer_sees.stb /\ q_ack
        buffered == bz_name \in sinks(bz_args) \cup sources(bz_args)
        load     == buffered /\ pipe_ce(buf_q_ack)
        open     == IF up THEN bz_packetized /\ ~d_unit.eop ELSE in_packet
    IN  /\ bz_name # None
        /\ valid_n' = IF load THEN buf_d.stb ELSE valid_n
        /\ q_unit' = IF load
                     THEN [data |-> buf_d.unit.data,
                           sop  |-> bz_packetized /\ buf_d.stb /\ buf_d.unit.sop,
                           eop  |-> bz_packetized /\ buf_d.stb /\ buf_d.unit.eop]
                     ELSE q_unit
        /\ sent' = IF up THEN Append(sent, d_unit) ELSE sent
        /\ received' = IF down THEN Append(received, consumer_sees.unit)
                       ELSE received
        /\ bz_last' = Some([up |-> up, d_unit |-> d_unit, down |-> down,
                            out |-> consumer_sees, q_ack |-> q_ack])
        /\ in_packet' = open
        /\ IF d_stb /\ ~up
           THEN d_stb' = TRUE /\ d_unit' = d_unit
           ELSE \E stb \in BOOLEAN, data \in Payloads, eop \in BOOLEAN :
                    /\ stb => Len(sent') < MaxUnits
                    /\ d_stb' = stb
                    /\ d_unit' = IF stb
                                 THEN [data |-> data,
                                       sop  |-> bz_packetized /\ ~open,
                                       eop  |-> bz_packetized /\ eop]
                                 ELSE IdleUnit
        /\ q_ack' \in BOOLEAN
        /\ UNCHANGED <<bz_args, bz_name, bz_packetized>>

BufNext ==
    BufTick /\ UNCHANGED <<primVars, fisVars, descVars, convVars,
                           counterVars, timeoutVars>>

(***************************************************************************)
(* The specifications.                                                     *)
(***************************************************************************)
InitPrimitives ==
    /\ PrimInit /\ FisIdle /\ DescIdle
    /\ ConvIdle /\ CounterIdle /\ TimeoutIdle /\ BufIdle

SpecPrimitives == InitPrimitives /\ [][PrimNext]_vars

InitFIS ==
    /\ PrimIdle /\ FisInit /\ DescIdle
    /\ ConvIdle /\ CounterIdle /\ TimeoutIdle /\ BufIdle

SpecFIS == InitFIS /\ [][FisNext]_vars

InitDescriptions ==
    /\ PrimIdle /\ FisIdle /\ DescInit
    /\ ConvIdle /\ CounterIdle /\ TimeoutIdle /\ BufIdle

SpecDescriptions == InitDescriptions /\ [][DescNext]_vars

InitSectors ==
    /\ PrimIdle /\ FisIdle /\ DescIdle
    /\ ConvInit /\ CounterIdle /\ TimeoutIdle /\ BufIdle

SpecSectors == InitSectors /\ [][ConvNext]_vars

InitCounter ==
    /\ PrimIdle /\ FisIdle /\ DescIdle
    /\ ConvIdle /\ CounterInit /\ TimeoutIdle /\ BufIdle

SpecCounter == InitCounter /\ [][CounterNext]_vars

InitTimeout ==
    /\ PrimIdle /\ FisIdle /\ DescIdle
    /\ ConvIdle /\ CounterIdle /\ TimeoutInit /\ BufIdle

SpecTimeout == InitTimeout /\ [][TimeoutNext]_vars

InitBuffer ==
    /\ PrimIdle /\ FisIdle /\ DescIdle
    /\ ConvIdle /\ CounterIdle /\ TimeoutIdle /\ BufInit

SpecBuffer == InitBuffer /\ [][BufNext]_vars

(***************************************************************************)
(* The properties.                                                         *)
(***************************************************************************)

\* C1: for every 32-bit word w, is_primitive(w) is true exactly when w is a
\* value of the primitives table; decode_primitive(w) returns the one name
\* whose value is w when there is one and "" otherwise; no two distinct
\* names of the table share a value.
C1_PrimitiveLookup ==
    /\ is_primitive_ret # Unset =>
           is_primitive_ret[1] = (dword \in TableValues)
    /\ decode_primitive_ret # Unset =>
           IF dword \in TableValues
           THEN NamesOf(dword) = {decode_primitive_ret[1]}
           ELSE decode_primitive_ret[1] = ""
    /\ \A i, j \in 1..Len(primitives_src) :
           primitives_src[i][2] = primitives_src[j][2]
               => primitives_src[i][1] = primitives_src[j][1]

\* The word of CONT, the name written twice, has been looked up both ways.
C1_Witness ==
    /\ dword = <<39321, 43644>>
    /\ is_primitive_ret = Some(TRUE)
    /\ decode_primitive_ret = Some("CONT")

\* C2: in each of the five FIS layouts no two fields occupy a common bit
\* of the same dword, every field has offset + width <= 32, and every
\* field's dword index is below the layout's declared dword length.
C2_FISLayouts ==
    fis_a # Unset =>
        LET a == fis_a[1]
            b == fis_b[1]
        IN  /\ a.name # b.name => FieldBits(a.field) \cap FieldBits(b.field) = {}
            /\ a.field.offset + a.field.width <= 32
            /\ a.field.dword < fis_cmd_len(fis_name)

\* The neighbouring one-bit fields d (bit 13) and i (bit 14) of the PIO
\* setup FIS have been read.
C2_Witness ==
    /\ fis_name = "pio_setup_d2h"
    /\ fis_a # Unset
    /\ fis_a[1].name = "d"
    /\ fis_b[1].name = "i"

\* The exact ceil(n / 128) and n * 128 of an integer [hi, exp, lo].
CeilDiv128(n) == PyInt(n.hi, n.exp - 7, (n.lo + 127) \div 128)
Times128(n)   == PyInt(n.hi, n.exp + 7, n.lo * 128)

\* C3: for every non-negative integer n, dwords2sectors(sectors2dwords(n))
\* = n, dwords2sectors(n) = ceil(n / 128) and sectors2dwords(n) = n * 128.
C3_Conversions ==
    conv_ret # Unset =>
        /\ conv_op = "roundtrip" => conv_ret[1] = conv_n
        /\ conv_op = "dwords2sectors" => conv_ret[1] = CeilDiv128(conv_n)
        /\ conv_op = "sectors2dwords" => conv_ret[1] = Times128(conv_n)

\* C3, for the integers whose quotient a double holds exactly: n * 4 below
\* 2^53 for dwords2sectors, n * 512 below 2^53 for the round trip.
C3_ExactRange ==
    conv_ret # Unset =>
        /\ conv_op = "roundtrip" /\ (conv_n.hi = 0 \/ conv_n.exp + 9 < DBL_MANT_DIG)
               => conv_ret[1] = conv_n
        /\ conv_op = "dwords2sectors" /\ (conv_n.hi = 0 \/ conv_n.exp + 2 < DBL_MANT_DIG)
               => conv_ret[1] = CeilDiv128(conv_n)
        /\ conv_op = "sectors2dwords" => conv_ret[1] = Times128(conv_n)

\* C3's own example: 129 dwords give 2 sectors.
C3_Example129 ==
    conv_op = "dwords2sectors" /\ conv_n = PyInt(0, 0, 129)
        => conv_ret = Some(PyInt(0, 0, 2))

\* C4: the units the consumer of a buffered endpoint has accepted are the
\* units accepted from the producer, in order, none lost, duplicated or
\* changed, each with its start-of-packet and end-of-packet markers: at
\* every step the received sequence is the sent one, but for at most one
\* last unit, which is then the unit shown to the consumer.
C4_SameSequence ==
    bz_name # None =>
        /\ Len(received) <= Len(sent)
        /\ received = SubSeq(sent, 1, Len(received))
        /\ Len(sent) - Len(received) <= 1
        /\ Len(sent) = Len(received) + 1 =>
               /\ consumer_sees.stb
               /\ consumer_sees.unit = sent[Len(sent)]

\* A packet of three units, start on the first and end on the third, has
\* gone through a buffered endpoint and has come out framed the same way.
C4_Witness ==
    /\ bz_name \in sinks(bz_args) \cup sources(bz_args)
    /\ bz_packetized
    /\ Len(received) = 3
    /\ received = sent
    /\ received[1].sop /\ ~received[1].eop
    /\ ~received[2].sop /\ ~received[2].eop
    /\ ~received[3].sop /\ received[3].eop

\* C5: with enable held, a Timeout(L) asserts reached exactly when L steps
\* have elapsed since its counter was last reset to zero: not before step L
\* and at step L, counted from power-up or from the last reset.
C5_ReachedAtLength ==
    timeout_length > 0 /\ timeout_held /\ timeout_ticks <= timeout_length
        => (reached <=> timeout_ticks = timeout_length)

\* C6: every endpoint description returned by the description functions,
\* for every data width, has pairwise distinct field names.
C6_DistinctFieldNames ==
    \A i, j \in 1..Len(desc_layout) :
        i # j => desc_layout[i][1] # desc_layout[j][1]

\* C7 as stated: after a step of Counter the value is zero if reset was
\* asserted, whether or not count-enable was; otherwise unchanged if
\* count-enable was not asserted; otherwise the former value plus one.
C7_PlusOne ==
    counter_last # Unset =>
        LET l == counter_last[1]
        IN  counter_value = IF l.reset THEN 0
                            ELSE IF ~l.ce THEN l.value
                            ELSE l.value + 1

\* C7 as amended: the same, the increment being modulo 2^width (the value
\* after the largest one the width holds is zero).
C7_PlusOneModulo ==
    counter_last # Unset =>
        LET l == counter_last[1]
        IN  counter_value =
                IF l.reset THEN 0
                ELSE IF ~l.ce THEN l.value
                ELSE IF l.value = Pow2(counter_width) - 1 THEN 0
                ELSE l.value + 1

\* Reset was asserted without count-enable on a counter that had counted,
\* and the value is zero.
C7_Witness ==
    /\ counter_last # Unset
    /\ counter_last[1].reset
    /\ ~counter_last[1].ce
    /\ counter_last[1].value > 1
    /\ counter_value = 0

\* The smallest power of two that is at least n (n >= 2).
PowerOfTwoFrom(n) == CHOOSE p \in {Pow2(k) : k \in 1..n} : p >= n /\ p < 2 * n

\* C8 as stated: once a Timeout's counter has counted past length, reached
\* is not asserted again before a reset.
C8_NeverAgain == timeout_fired => ~reached

\* C8 as amended: the counter is not capped and wraps around, so reached is
\* asserted again after it: with enable held and no reset, reached is
\* asserted exactly at the steps t with t mod P = length, P the smallest
\* power of two that is at least length.
C8_AgainEveryPeriod ==
    timeout_length > 0 /\ timeout_held =>
        (reached <=>
            timeout_ticks % PowerOfTwoFrom(timeout_length) = timeout_length)

\* A Timeout(5) with enable held asserts reached a second time, at step 13.
C8_Witness ==
    /\ timeout_length = 5
    /\ timeout_held
    /\ timeout_fired
    /\ timeout_ticks = 13
    /\ reached

\* C9 as stated: without reset, the value of Counter never decreases from
\* one step to the next.
C9_NeverDecreases ==
    counter_last # Unset /\ ~counter_last[1].reset
        => counter_value >= counter_last[1].value

\* C9 as amended: without reset, the value never decreases from one step
\* to the next except on an enabled step from the largest value its width
\* holds, 2^width - 1, which takes it back to zero.
C9_DecreasesOnlyByWrapping ==
    counter_last # Unset /\ ~counter_last[1].reset =>
        \/ counter_value >= counter_last[1].value
        \/ /\ counter_last[1].ce
           /\ counter_last[1].value = Pow2(counter_width) - 1
           /\ counter_value = 0

\* A 3-bit counter has stepped, enabled and not reset, from 7 to 0.
C9_Witness ==
    /\ counter_width = 3
    /\ counter_last # Unset
    /\ ~counter_last[1].reset
    /\ counter_last[1].ce
    /\ counter_last[1].value = 7
    /\ counter_value = 0

\* C10: an endpoint that BufferizeEndpoints is asked to buffer (named in
\* args, or args empty) has a slot of one unit: the units accepted and not
\* yet delivered are at most one; a unit accepted at a step is shown valid
\* to the consumer at the next; a unit shown valid and not accepted is
\* shown unchanged, markers included, at the next step; and the producer
\* is accepted exactly when the slot is empty or its unit is being accepted
\* by the consumer.
C10_OneUnitSlot ==
    bz_name # None /\ (bz_name \in bz_args \/ bz_args = {}) =>
        /\ Len(sent) - Len(received) \in {0, 1}
        /\ valid_n <=> Len(sent) - Len(received) = 1
        /\ bz_last # Unset /\ bz_last[1].up =>
               /\ consumer_sees.stb
               /\ consumer_sees.unit = bz_last[1].d_unit
        /\ bz_last # Unset /\ bz_last[1].out.stb /\ ~bz_last[1].q_ack =>
               consumer_sees = bz_last[1].out
        /\ producer_ack <=> (~valid_n \/ (consumer_sees.stb /\ q_ack))

\* With args empty: the slot holds a unit the consumer refused at the last
\* step, the producer shows the next unit, and is not accepted.
C10_Witness ==
    /\ bz_args = {}
    /\ bz_name = "sink"
    /\ bz_last # Unset
    /\ bz_last[1].out.stb /\ ~bz_last[1].q_ack
    /\ valid_n /\ ~q_ack
    /\ d_stb /\ ~producer_ack
    /\ Len(sent) = 2 /\ Len(received) = 1

=============================================================================
